---------------------------- MODULE Spec2Model ----------------------------
(***************************************************************************)
(* Model of monitor/dashboard_server.py: the live dashboard server for     *)
(* ML-Agents runs.  Worker threads (ThreadingHTTPServer, one per request)  *)
(* serve GET /api/metrics through DashboardHandler.handle_metrics, which   *)
(* resolves a (run, behavior) pair with discover_runs and fetches the      *)
(* EventAccumulator of the resolved file from the shared EventCache, and   *)
(* GET /api/runs through DashboardHandler.handle_runs, which lists what    *)
(* discover_runs finds, grouped by run.  The trainer (mlagents-learn) is   *)
(* the environment: it creates event files and appends scalar records to   *)
(* them while the server runs.                                             *)
(***************************************************************************)
EXTENDS Integers, Sequences, FiniteSets, TLC

(***************************************************************************)
(* Bounds of the model.                                                    *)
(***************************************************************************)
NumThreads == 2      \* worker threads serving requests at the same time
MaxRecords == 1      \* records the trainer appends while requests run concurrently
MaxAppends == 3      \* records the trainer appends between successive requests
MaxGets == 3         \* successive requests that reach the cache
MaxLog == 4          \* records of a log written before a single request
MaxFiles == 3        \* entries of a directory tree given to discover_runs
MaxMtime == 2        \* modification times of the entries of such a tree

Threads == 1..NumThreads

(***************************************************************************)
(* Values.                                                                 *)
(***************************************************************************)
None == "<None>"                     \* Python's None, where a str is expected
Tags == {"reward", "loss"}           \* scalar series names the trainer writes

\* File names, split at the dots.
EventName1 == <<"events", "out", "tfevents", "1">>
EventName2 == <<"events", "out", "tfevents", "2">>

\* The files the trainer may create under the results directory.
Paths ==
    { [run |-> "run1", behavior |-> "AgentA", name |-> EventName1],
      [run |-> "run1", behavior |-> "AgentA", name |-> EventName2] }

Max(a, b) == IF a >= b THEN a ELSE b
Min(a, b) == IF a <= b THEN a ELSE b


(***************************************************************************)
(* The query string of a request, after urlparse: for each key the value   *)
(* given, None when the key is absent, and the empty text when the key is  *)
(* given blank ("run=").  The limit is a text, kept as its characters.     *)
(***************************************************************************)
NoLimit == [given |-> FALSE, text |-> <<>>]
LimitText(cs) == [given |-> TRUE, text |-> cs]
Query(run, behavior, limit) == [run |-> run, behavior |-> behavior, limit |-> limit]

\* parse_qs: each key maps to the list of its values; a blank value is dropped
\* (keep_blank_values is off), so a key with no other value is not in the dict.
parse_qs(query) ==
    [ run      |-> IF query.run \in {None, ""} THEN <<>> ELSE <<query.run>>,
      behavior |-> IF query.behavior \in {None, ""} THEN <<>> ELSE <<query.behavior>>,
      limit    |-> IF query.limit.given /\ query.limit.text # <<>>
                   THEN <<query.limit.text>> ELSE <<>> ]

(***************************************************************************)
(* int(text): surrounding blanks are stripped, then an optional sign and   *)
(* decimal digits, with single underscores allowed between digits.         *)
(* Anything else raises ValueError.                                        *)
(***************************************************************************)
Digits == <<"0", "1", "2", "3", "4", "5", "6", "7", "8", "9">>
DigitSet == {Digits[i] : i \in 1..10}
DigitVal(c) == (CHOOSE i \in 1..10 : Digits[i] = c) - 1

RECURSIVE LStrip(_)
LStrip(s) == IF s # <<>> /\ s[1] = " " THEN LStrip(Tail(s)) ELSE s
RECURSIVE RStrip(_)
RStrip(s) == IF s # <<>> /\ s[Len(s)] = " " THEN RStrip(SubSeq(s, 1, Len(s) - 1)) ELSE s
Strip(s) == RStrip(LStrip(s))

Unsigned(s) == IF s # <<>> /\ s[1] \in {"+", "-"} THEN Tail(s) ELSE s
WellFormedDigits(d) ==
    /\ d # <<>>
    /\ \A i \in 1..Len(d) : d[i] \in DigitSet \cup {"_"}
    /\ d[1] # "_" /\ d[Len(d)] # "_"
    /\ \A i \in 1..(Len(d) - 1) : ~(d[i] = "_" /\ d[i + 1] = "_")
IsIntText(s) == WellFormedDigits(Unsigned(Strip(s)))

RECURSIVE DigitsValue(_, _)
DigitsValue(d, acc) ==
    IF d = <<>> THEN acc
    ELSE IF d[1] = "_" THEN DigitsValue(Tail(d), acc)
    ELSE DigitsValue(Tail(d), 10 * acc + DigitVal(d[1]))
\* The value of int(s), for a text s that int() accepts.
IntValue(s) ==
    LET t == Strip(s)
    IN  IF t[1] = "-" THEN 0 - DigitsValue(Unsigned(t), 0) ELSE DigitsValue(Unsigned(t), 0)

DefaultLimit == 200
MinLimit == 1
MaxLimit == 2000

\* A bug the limit could have: the lower clamp forgotten.
EffectiveLimitNoFloor(params) ==
    IF params.limit = <<>> THEN Min(DefaultLimit, MaxLimit)
    ELSE IF IsIntText(params.limit[1]) THEN Min(IntValue(params.limit[1]), MaxLimit)
    ELSE DefaultLimit

\* handle_metrics, lines 155-159: limit_raw is the int 200 when the key is
\* absent, else the first value's text; ValueError falls back to 200.
EffectiveLimit(params) ==
    IF params.limit = <<>> THEN Max(MinLimit, Min(DefaultLimit, MaxLimit))
    ELSE IF IsIntText(params.limit[1])
         THEN Max(MinLimit, Min(IntValue(params.limit[1]), MaxLimit))
         ELSE DefaultLimit

\* A bug the validation could have: only a request lacking both is refused.
ParamsMissingBoth(run_id, behavior) == run_id = None /\ behavior = None

\* handle_metrics, line 161: not run_id or not behavior (None or empty).
ParamsMissing(run_id, behavior) ==
    run_id \in {None, ""} \/ behavior \in {None, ""}

(***************************************************************************)
(* A Python slice s[k:] of a list.                                         *)
(***************************************************************************)
SliceFrom(s, k) ==
    LET start == IF k < 0 THEN Max(Len(s) + k, 0) ELSE Min(k, Len(s))
    IN  SubSeq(s, start + 1, Len(s))
\* A Python slice s[:k] of a list.
SliceTo(s, k) ==
    LET stop == IF k < 0 THEN Max(Len(s) + k, 0) ELSE Min(k, Len(s))
    IN  SubSeq(s, 1, stop)

\* A bug the window could have: the head of the series instead of its tail.
WindowHead(series, limit) == SliceTo(series, limit)

\* handle_metrics, line 180: acc.Scalars(tag)[-limit:].
Window(series, limit) == SliceFrom(series, 0 - limit)

(***************************************************************************)
(* State.                                                                  *)
(***************************************************************************)
VARIABLES
    available,    \* FALSE when the tensorboard import failed (event_accumulator is None)
    root_exists,  \* whether results_dir exists
    files,        \* the files under results_dir: path -> [mtime, log]; log is the
                  \* file's scalar records, in the order written
    now,          \* the file system's clock
    accs,         \* every EventAccumulator constructed so far, by identity (index)
    cache,        \* EventCache._cache: path -> identity of its EventAccumulator
    lock,         \* EventCache._lock: the thread holding it, or 0
    pc,           \* where each worker thread is in its request
    query,        \* the query string each thread was given
    limit,        \* handle_metrics' local limit
    event_file,   \* handle_metrics' local event_file (a BehaviorEventFile)
    acc,          \* the accumulator each thread holds (get's and handle_metrics' acc)
    tags,         \* handle_metrics' local tags
    data,         \* handle_metrics' local data, for each tag read so far
    resp,         \* the response written
    returned,     \* per path, what each get call returned, in order of return:
                  \* the accumulator, its content then, and the file's log then
    scan          \* the locals of discover_runs as handle_runs calls it, per thread

vars == <<available, root_exists, files, now, accs, cache, lock, pc, query, limit,
          event_file, acc, tags, data, resp, returned, scan>>

fsVars == <<root_exists, files, now>>
cacheVars == <<accs, cache, lock, returned>>
localVars == <<query, limit, event_file, acc, tags, data, resp>>

NoFile == [run_id |-> None, behavior |-> None, event_path |-> <<>>, updated_at |-> 0]
NoResp == [status |-> 0, error |-> ""]

\* discover_runs' locals before the call: the run directories and the behavior
\* directories still to visit, the directories being visited, the event files
\* max() has still to look at, the latest file so far with the mtime it was
\* seen with, and the list of results.
NoScan ==
    [run_dirs |-> <<>>, run_dir |-> None, behavior_dirs |-> {}, behavior_dir |-> None,
     event_files |-> {}, latest |-> <<>>, key |-> 0, runs |-> <<>>]

(***************************************************************************)
(* discover_runs.                                                          *)
(***************************************************************************)
EventPrefix == <<"events", "out", "tfevents">>
\* behavior_dir.glob("events.out.tfevents.*"): the name starts with the prefix
\* and its dot.
IsEventFile(name) == Len(name) > Len(EventPrefix) /\ SubSeq(name, 1, Len(EventPrefix)) = EventPrefix

\* The event files of one behavior directory.
EventFiles(fs, run, behavior) ==
    {p \in DOMAIN fs : p.run = run /\ p.behavior = behavior /\ IsEventFile(p.name)}

\* max(event_files, key=mtime): a file of maximal mtime; among several the first
\* in the directory's listing order, which the file system decides.
LatestFiles(fs, run, behavior) ==
    {p \in EventFiles(fs, run, behavior) :
        \A q \in EventFiles(fs, run, behavior) : fs[q].mtime <= fs[p].mtime}

\* The entries discover_runs may return: one per behavior directory that holds
\* an event file, for a latest file of it.
discover_runs(exists, fs) ==
    IF ~exists THEN {}
    ELSE { [run_id |-> p.run, behavior |-> p.behavior, event_path |-> p,
            updated_at |-> fs[p].mtime] :
           p \in {q \in DOMAIN fs : q \in LatestFiles(fs, q.run, q.behavior)} }

\* A bug _find_event_file could have: the behavior not compared.
find_event_file_run_only(exists, fs, run_id, behavior) ==
    {r \in discover_runs(exists, fs) : r.run_id = run_id}

\* _find_event_file: the entry of discover_runs for (run_id, behavior); the empty
\* set stands for None.
find_event_file(exists, fs, run_id, behavior) ==
    {r \in discover_runs(exists, fs) : r.run_id = run_id /\ r.behavior = behavior}

(***************************************************************************)
(* The EventAccumulator of tensorboard, as this server uses it: it reads   *)
(* the records of its file in order from where the last Reload stopped and *)
(* adds each to the reservoir of its tag.                                  *)
(***************************************************************************)
\* A bug the size guidance could have: scalars capped like the other kinds.
default_size_guidance_capped == [scalars |-> 1, histograms |-> 1]

\* _default_size_guidance: 0 keeps every scalar.
default_size_guidance == [scalars |-> 0, histograms |-> 1]

\* The buckets a reservoir of the given size may hold after one more item: with
\* size 0 every item is kept; a full bucket drops one item at random and
\* appends, or overwrites its last item.
AddItem(bucket, item, size) ==
    IF size = 0 \/ Len(bucket) < size THEN {Append(bucket, item)}
    ELSE {[bucket EXCEPT ![Len(bucket)] = item]}
         \cup {Append(SubSeq(bucket, 1, i - 1) \o SubSeq(bucket, i + 1, Len(bucket)), item) :
                 i \in 1..Len(bucket)}

\* EventAccumulator(path, size_guidance): nothing read yet.
NewAccumulator(path, guidance) ==
    [path |-> path, offset |-> 0, size |-> guidance.scalars, tags |-> <<>>,
     items |-> [g \in Tags |-> <<>>]]

\* The step of the next record of a tag in a log: steps count up per series.
NextStep(log, tag) == Cardinality({i \in 1..Len(log) : log[i].tag = tag}) + 1

\* The accumulators after `a` took in one more record.
Accumulate(a, rec) ==
    { [a EXCEPT !.offset = @ + 1,
                !.tags = IF \E i \in 1..Len(@) : @[i] = rec.tag THEN @ ELSE Append(@, rec.tag),
                !.items[rec.tag] = bucket] :
      bucket \in AddItem(a.items[rec.tag], rec.step, a.size) }

Content(a) == [tags |-> a.tags, items |-> a.items]

(***************************************************************************)
(* Requests.                                                               *)
(***************************************************************************)
Run1 == "run1"
AgentA == "AgentA"
Malformed == LimitText(<<"a", "b", "c">>)

\* Requests that lack run or behavior, the key absent or given blank.
IncompleteQueries ==
    { Query(None, None, NoLimit),
      Query(None, AgentA, Malformed),
      Query(Run1, None, LimitText(<<"5">>)),
      Query("", AgentA, NoLimit),
      Query(Run1, "", NoLimit) }

\* The requests of the concurrent workers.
Queries ==
    { Query(None, AgentA, Malformed),
      Query(Run1, AgentA, NoLimit) }

\* The requests served one after the other.
SequentialQueries ==
    IncompleteQueries \cup { Query("missing", "x", NoLimit), Query(Run1, AgentA, NoLimit) }

ErrRequired == <<"run and behavior are required">>
ErrNotFound(run_id, behavior) ==
    <<"No event file found for run '", run_id, "' and behavior '", behavior, "'">>
\* (the message's backquotes are left out)
ErrNoTensorboard ==
    <<"tensorboard is not installed. Install it with pip install tensorboard.">>

\* _write_json({"error": error}, status)
ErrorResponse(status, error) ==
    [status |-> status, error |-> error, run |-> None, behavior |-> None,
     event_path |-> <<>>, updated_at |-> 0, tags |-> <<>>, data |-> <<>>]

\* params.get(key, [default])[0]
First(values, default) == IF values = <<>> THEN default ELSE values[1]

Init ==
    /\ available \in BOOLEAN
    /\ root_exists = FALSE
    /\ files = <<>>
    /\ now = 0
    /\ accs = <<>>
    /\ cache = <<>>
    /\ lock = 0
    /\ pc = [t \in Threads |-> "idle"]
    /\ query = [t \in Threads |-> Query(None, None, NoLimit)]
    /\ limit = [t \in Threads |-> 0]
    /\ event_file = [t \in Threads |-> NoFile]
    /\ acc = [t \in Threads |-> 0]
    /\ tags = [t \in Threads |-> <<>>]
    /\ data = [t \in Threads |-> <<>>]
    /\ resp = [t \in Threads |-> NoResp]
    /\ returned = [p \in Paths |-> <<>>]
    /\ scan = [t \in Threads |-> NoScan]

(***************************************************************************)
(* The trainer.  A write stamps the file with the clock's time; the clock  *)
(* advances with every write.                                              *)
(***************************************************************************)
RecordsWritten(fs) ==
    LET RECURSIVE Sum(_)
        Sum(S) == IF S = {} THEN 0
                  ELSE LET p == CHOOSE x \in S : TRUE IN Len(fs[p].log) + Sum(S \ {p})
    IN  Sum(DOMAIN fs)

MakeRoot ==
    /\ ~root_exists
    /\ root_exists' = TRUE
    /\ UNCHANGED <<scan, available, files, now, cacheVars, pc, localVars>>

CreateFile(p) ==
    /\ root_exists
    /\ p \notin DOMAIN files
    /\ now' = now + 1
    /\ files' = (p :> [mtime |-> now + 1, log |-> <<>>]) @@ files
    /\ UNCHANGED <<scan, available, root_exists, cacheVars, pc, localVars>>

\* The trainer appends a record to a file, at most `max` records in all.
AppendRecord(p, tag, max) ==
    /\ p \in DOMAIN files
    /\ RecordsWritten(files) < max
    /\ now' = now + 1
    /\ files' = [files EXCEPT ![p] =
                   [mtime |-> now + 1,
                    log |-> Append(@.log, [tag |-> tag, step |-> NextStep(@.log, tag)])]]
    /\ UNCHANGED <<scan, available, root_exists, cacheVars, pc, localVars>>

(***************************************************************************)
(* DashboardHandler.handle_metrics, with EventCache.get inlined at its     *)
(* call.  Steps that touch only the thread's own locals are taken together *)
(* with the step on shared state that follows them.                        *)
(***************************************************************************)
RunId(t) == First(parse_qs(query[t]).run, None)
Behavior(t) == First(parse_qs(query[t]).behavior, None)

\* A bug get could have: the check for tensorboard left out, the call going on
\* to the lock without it.
handle_metrics_begin_unchecked(t, q) ==
    /\ pc[t] = "idle"
    /\ query' = [query EXCEPT ![t] = q]
    /\ limit' = [limit EXCEPT ![t] = EffectiveLimit(parse_qs(q))]
    /\ LET run_id == First(parse_qs(q).run, None)
           behavior == First(parse_qs(q).behavior, None)
           found == find_event_file(root_exists, files, run_id, behavior)
       IN  IF ParamsMissing(run_id, behavior)
           THEN /\ resp' = [resp EXCEPT ![t] = ErrorResponse(400, ErrRequired)]
                /\ pc' = [pc EXCEPT ![t] = "done"]
                /\ UNCHANGED event_file
           ELSE IF found = {}
           THEN /\ resp' = [resp EXCEPT ![t] =
                              ErrorResponse(404, ErrNotFound(run_id, behavior))]
                /\ pc' = [pc EXCEPT ![t] = "done"]
                /\ UNCHANGED event_file
           ELSE /\ \E r \in found : event_file' = [event_file EXCEPT ![t] = r]
                /\ pc' = [pc EXCEPT ![t] = "acquire"]
                /\ UNCHANGED resp
    /\ UNCHANGED <<scan, available, fsVars, cacheVars, acc, tags, data>>

\* Lines 152-176 and 84-87: the parameters and the limit, then 400 when run or
\* behavior lacks; the event file of (run, behavior), 404 when there is none;
\* get's RuntimeError without tensorboard, answered with 500 (lines 194-195).
handle_metrics_begin(t, q) ==
    /\ pc[t] = "idle"
    /\ query' = [query EXCEPT ![t] = q]
    /\ limit' = [limit EXCEPT ![t] = EffectiveLimit(parse_qs(q))]
    /\ LET run_id == First(parse_qs(q).run, None)
           behavior == First(parse_qs(q).behavior, None)
           found == find_event_file(root_exists, files, run_id, behavior)
       IN  IF ParamsMissing(run_id, behavior)
           THEN /\ resp' = [resp EXCEPT ![t] = ErrorResponse(400, ErrRequired)]
                /\ pc' = [pc EXCEPT ![t] = "done"]
                /\ UNCHANGED event_file
           ELSE IF found = {}
           THEN /\ resp' = [resp EXCEPT ![t] =
                              ErrorResponse(404, ErrNotFound(run_id, behavior))]
                /\ pc' = [pc EXCEPT ![t] = "done"]
                /\ UNCHANGED event_file
           ELSE /\ \E r \in found : event_file' = [event_file EXCEPT ![t] = r]
                /\ IF ~available
                   THEN /\ resp' = [resp EXCEPT ![t] = ErrorResponse(500, ErrNoTensorboard)]
                        /\ pc' = [pc EXCEPT ![t] = "done"]
                   ELSE /\ pc' = [pc EXCEPT ![t] = "acquire"]
                        /\ UNCHANGED resp
    /\ UNCHANGED <<scan, available, fsVars, cacheVars, acc, tags, data>>

\* What a get call returns, as recorded per path.
Returned(t, a) ==
    [returned EXCEPT ![event_file[t].event_path] =
        Append(@, [acc |-> a, content |-> Content(accs'[a]),
                   log |-> files[event_file[t].event_path].log])]

\* get's lookup, line 89, then lines 91-93 when the path has no accumulator:
\* one is constructed (it is stored after its first Reload).
Lookup(t) ==
    IF event_file[t].event_path \in DOMAIN cache
    THEN /\ acc' = [acc EXCEPT ![t] = cache[event_file[t].event_path]]
         /\ pc' = [pc EXCEPT ![t] = "reload"]
         /\ UNCHANGED accs
    ELSE /\ accs' = Append(accs, NewAccumulator(event_file[t].event_path,
                                                default_size_guidance))
         /\ acc' = [acc EXCEPT ![t] = Len(accs) + 1]
         /\ pc' = [pc EXCEPT ![t] = "reload_first"]

\* A bug get could have: the lookup made without taking the lock.
get_enter_unguarded(t) ==
    /\ pc[t] = "acquire"
    /\ lock' = t
    /\ Lookup(t)
    /\ UNCHANGED <<scan, available, fsVars, cache, returned, query, limit, event_file,
                   tags, data, resp>>

\* A bug get could have: the cached accumulator is not looked up, a new one is
\* made on every call.
get_enter_no_lookup(t) ==
    /\ pc[t] = "acquire"
    /\ lock = 0
    /\ lock' = t
    /\ accs' = Append(accs, NewAccumulator(event_file[t].event_path, default_size_guidance))
    /\ acc' = [acc EXCEPT ![t] = Len(accs) + 1]
    /\ pc' = [pc EXCEPT ![t] = "reload_first"]
    /\ UNCHANGED <<scan, available, fsVars, cache, returned, query, limit, event_file,
                   tags, data, resp>>

\* A bug get could have: a new accumulator is stored before it is loaded.
get_enter_store_first(t) ==
    /\ pc[t] = "acquire"
    /\ lock = 0
    /\ lock' = t
    /\ Lookup(t)
    /\ cache' = IF event_file[t].event_path \in DOMAIN cache THEN cache
                ELSE (event_file[t].event_path :> Len(accs) + 1) @@ cache
    /\ UNCHANGED <<scan, available, fsVars, returned, query, limit, event_file,
                   tags, data, resp>>

\* A bug get could have: a new accumulator is stored and returned without its
\* first Reload.
get_enter_no_reload(t) ==
    /\ pc[t] = "acquire"
    /\ lock = 0
    /\ IF event_file[t].event_path \in DOMAIN cache
       THEN /\ lock' = t
            /\ Lookup(t)
            /\ UNCHANGED <<cache, returned>>
       ELSE /\ accs' = Append(accs, NewAccumulator(event_file[t].event_path,
                                                   default_size_guidance))
            /\ acc' = [acc EXCEPT ![t] = Len(accs) + 1]
            /\ cache' = (event_file[t].event_path :> Len(accs) + 1) @@ cache
            /\ returned' = Returned(t, Len(accs) + 1)
            /\ pc' = [pc EXCEPT ![t] = "tags"]
            /\ UNCHANGED lock
    /\ UNCHANGED <<scan, available, fsVars, query, limit, event_file, tags, data, resp>>

\* A bug get could have: the lock held for the lookup only, and released before
\* the accumulator is constructed or reloaded.
get_enter_lookup_only(t) ==
    /\ pc[t] = "acquire"
    /\ lock = 0
    /\ UNCHANGED lock
    /\ Lookup(t)
    /\ UNCHANGED <<scan, available, fsVars, cache, returned, query, limit, event_file,
                   tags, data, resp>>

\* get, lines 88-93: the lock is taken, the path looked up and, when it has no
\* accumulator, one constructed.
get_enter(t) ==
    /\ pc[t] = "acquire"
    /\ lock = 0
    /\ lock' = t
    /\ Lookup(t)
    /\ UNCHANGED <<scan, available, fsVars, cache, returned, query, limit, event_file,
                   tags, data, resp>>

\* acc.Reload(), lines 94 and 97, one record of it: the next record of the file
\* is read and added.
Reload_read(t) ==
    /\ pc[t] \in {"reload_first", "reload"}
    /\ LET a == accs[acc[t]]
       IN  /\ a.offset < Len(files[a.path].log)
           /\ \E b \in Accumulate(a, files[a.path].log[a.offset + 1]) :
                 accs' = [accs EXCEPT ![acc[t]] = b]
    /\ UNCHANGED <<scan, available, fsVars, cache, lock, returned, pc, localVars>>

\* acc.Reload() reaches the end of the file; lines 95 and 98: a new accumulator
\* is stored, the lock released and the accumulator returned.
get_return(t) ==
    /\ pc[t] \in {"reload_first", "reload"}
    /\ accs[acc[t]].offset = Len(files[accs[acc[t]].path].log)
    /\ cache' = IF pc[t] = "reload_first"
                THEN (event_file[t].event_path :> acc[t]) @@ cache
                ELSE cache
    /\ lock' = 0
    /\ accs' = accs
    /\ returned' = Returned(t, acc[t])
    /\ pc' = [pc EXCEPT ![t] = "tags"]
    /\ UNCHANGED <<scan, available, fsVars, localVars>>

\* str(exc) of a RuntimeError the parser raised.
ErrParser == <<"str(exc)">>

\* What handle_metrics does with an exception out of get: a RuntimeError is
\* answered 500 (lines 194-195); any other leaves handle_metrics, the server
\* logs it and closes the connection, no response written.
Raised(t, runtime_error) ==
    /\ resp' = [resp EXCEPT ![t] = IF runtime_error THEN ErrorResponse(500, ErrParser)
                                   ELSE NoResp]
    /\ pc' = [pc EXCEPT ![t] = "done"]

\* Lines 88-93, the constructor raising: the with statement releases the lock
\* on the way out, nothing is stored.
construct_raise(t) ==
    /\ pc[t] = "acquire"
    /\ lock = 0
    /\ event_file[t].event_path \notin DOMAIN cache
    /\ \E runtime_error \in BOOLEAN : Raised(t, runtime_error)
    /\ UNCHANGED <<scan, available, fsVars, cacheVars, query, limit, event_file,
                   acc, tags, data>>

\* A bug get could have: the lock taken with acquire() and released before
\* the return only, so that an exception leaves it held.
Reload_raise_holding(t) ==
    /\ pc[t] \in {"reload_first", "reload"}
    /\ \E runtime_error \in BOOLEAN : Raised(t, runtime_error)
    /\ UNCHANGED <<scan, available, fsVars, cacheVars, query, limit, event_file,
                   acc, tags, data>>

\* acc.Reload(), lines 94 and 97, raising, after any number of records read:
\* the with statement releases the lock on the way out; line 95 is not
\* reached, so a new accumulator is not stored.
Reload_raise(t) ==
    /\ pc[t] \in {"reload_first", "reload"}
    /\ lock' = 0
    /\ \E runtime_error \in BOOLEAN : Raised(t, runtime_error)
    /\ UNCHANGED <<scan, available, fsVars, accs, cache, returned, query, limit,
                   event_file, acc, tags, data>>

\* Lines 185-193: the payload, written with status 200.
Payload(t, tgs, dat) ==
    [status |-> 200, error |-> <<>>, run |-> RunId(t), behavior |-> Behavior(t),
     event_path |-> event_file[t].event_path, updated_at |-> event_file[t].updated_at,
     tags |-> tgs, data |-> dat]

\* Line 177: acc.Tags()["scalars"]; with no tag the payload is written at once.
read_tags(t) ==
    /\ pc[t] = "tags"
    /\ tags' = [tags EXCEPT ![t] = accs[acc[t]].tags]
    /\ IF accs[acc[t]].tags = <<>>
       THEN /\ resp' = [resp EXCEPT ![t] = Payload(t, <<>>, <<>>)]
            /\ pc' = [pc EXCEPT ![t] = "done"]
       ELSE /\ pc' = [pc EXCEPT ![t] = "scalars"]
            /\ UNCHANGED resp
    /\ UNCHANGED <<scan, available, fsVars, cacheVars, query, limit, event_file, acc, data>>

\* Lines 179-184, one turn of the loop: the series of the next tag, cut to its
\* last `limit` samples; after the last tag the payload is written.
read_scalars(t) ==
    /\ pc[t] = "scalars"
    /\ LET series == accs[acc[t]].items[tags[t][Len(data[t]) + 1]]
           dat == Append(data[t], Window(series, limit[t]))
       IN  /\ data' = [data EXCEPT ![t] = dat]
           /\ IF Len(dat) = Len(tags[t])
              THEN /\ resp' = [resp EXCEPT ![t] = Payload(t, tags[t], dat)]
                   /\ pc' = [pc EXCEPT ![t] = "done"]
              ELSE UNCHANGED <<resp, pc>>
    /\ UNCHANGED <<scan, available, fsVars, cacheVars, query, limit, event_file, acc, tags>>

(***************************************************************************)
(* DashboardHandler.handle_runs, with discover_runs inlined at its call,   *)
(* one step for each look at the file system.  An entry of the results     *)
(* directory is recorded in `files` by the path of a file below it; a      *)
(* plain file in the results directory is recorded with no behavior, a     *)
(* plain file in a run directory with no name.                             *)
(***************************************************************************)
\* The names under the results directory, in the order sorted() gives their
\* paths (str order: upper case before lower case).
NameOrder == <<"README", "Run1", "missing", "run1", "run2">>
Rank(name) == CHOOSE i \in 1..Len(NameOrder) : NameOrder[i] = name

RECURSIVE sorted_names(_)
\* sorted(results_dir.iterdir()), line 55.
sorted_names(S) ==
    IF S = {} THEN <<>>
    ELSE LET n == CHOOSE x \in S : \A y \in S : Rank(x) <= Rank(y)
         IN  <<n>> \o sorted_names(S \ {n})

\* results_dir.iterdir(): the entries of the results directory, by name.
iterdir_results(fs) == {p.run : p \in DOMAIN fs}
\* run_dir.is_dir(), line 56.
is_run_dir(fs, run) == \E p \in DOMAIN fs : p.run = run /\ p.behavior # None
\* run_dir.iterdir(), line 58: the entries of a run directory, by name.
iterdir_run(fs, run) == {p.behavior : p \in {q \in DOMAIN fs : q.run = run /\ q.behavior # None}}
\* behavior_dir.is_dir(), line 59.
is_behavior_dir(fs, run, behavior) ==
    \E p \in DOMAIN fs : p.run = run /\ p.behavior = behavior /\ p.name # <<>>

\* A bug handle_runs' discovery could have: results_dir.exists() not asked, so
\* that iterdir() raises on a missing directory and no response is written.
handle_runs_begin_unchecked(t) ==
    /\ pc[t] = "idle"
    /\ scan' = [scan EXCEPT ![t] =
                  [NoScan EXCEPT !.run_dirs = sorted_names(iterdir_results(files))]]
    /\ pc' = [pc EXCEPT ![t] = IF root_exists THEN "run_dir" ELSE "done"]
    /\ UNCHANGED <<available, fsVars, cacheVars, localVars>>

\* Lines 129 and 51-55: discover_runs is called; without the results
\* directory it returns its empty list, else the run directories are listed
\* and sorted.
handle_runs_begin(t) ==
    /\ pc[t] = "idle"
    /\ scan' = [scan EXCEPT ![t] =
                  [NoScan EXCEPT !.run_dirs =
                      IF root_exists THEN sorted_names(iterdir_results(files)) ELSE <<>>]]
    /\ pc' = [pc EXCEPT ![t] = IF root_exists THEN "run_dir" ELSE "group"]
    /\ UNCHANGED <<available, fsVars, cacheVars, localVars>>

\* Lines 55-58, one turn of the outer loop: the next run directory, its
\* entries listed; an entry that is no directory is passed over.  After the
\* last one discover_runs returns.
scan_run_dir(t) ==
    /\ pc[t] = "run_dir"
    /\ IF scan[t].run_dirs = <<>>
       THEN /\ pc' = [pc EXCEPT ![t] = "group"]
            /\ UNCHANGED scan
       ELSE LET run == Head(scan[t].run_dirs)
                dir == is_run_dir(files, run)
            IN  /\ scan' = [scan EXCEPT ![t].run_dirs = Tail(@),
                                        ![t].run_dir = run,
                                        ![t].behavior_dirs =
                                            IF dir THEN iterdir_run(files, run) ELSE {}]
                /\ pc' = [pc EXCEPT ![t] = IF dir THEN "behavior_dir" ELSE "run_dir"]
    /\ UNCHANGED <<available, fsVars, cacheVars, localVars>>

\* Lines 58-63, one turn of the inner loop: the next behavior directory, in
\* the order the file system lists them, and its event files; an entry that
\* is no directory or holds no event file is passed over.
scan_behavior_dir(t) ==
    /\ pc[t] = "behavior_dir"
    /\ IF scan[t].behavior_dirs = {}
       THEN /\ pc' = [pc EXCEPT ![t] = "run_dir"]
            /\ UNCHANGED scan
       ELSE \E b \in scan[t].behavior_dirs :
              LET event_files == IF is_behavior_dir(files, scan[t].run_dir, b)
                                 THEN EventFiles(files, scan[t].run_dir, b)
                                 ELSE {}
              IN  /\ scan' = [scan EXCEPT ![t].behavior_dirs = @ \ {b},
                                          ![t].behavior_dir = b,
                                          ![t].event_files = event_files,
                                          ![t].latest = <<>>,
                                          ![t].key = 0]
                  /\ pc' = [pc EXCEPT ![t] = IF event_files = {} THEN "behavior_dir"
                                             ELSE "stat"]
    /\ UNCHANGED <<available, fsVars, cacheVars, localVars>>

\* A bug max() could have been written with: the file looked at last wins.
scan_stat_last(t) ==
    /\ pc[t] = "stat"
    /\ \E f \in scan[t].event_files :
          /\ scan' = [scan EXCEPT ![t].event_files = @ \ {f},
                                  ![t].latest = f,
                                  ![t].key = files[f].mtime]
          /\ pc' = [pc EXCEPT ![t] = IF scan[t].event_files = {f} THEN "append"
                                     ELSE "stat"]
    /\ UNCHANGED <<available, fsVars, cacheVars, localVars>>

\* Line 64, max(event_files, key=mtime), one file of it: the file is stat'ed,
\* and is the latest so far when its mtime is greater than that of every file
\* before it (the files come in the order the file system lists them).
scan_stat(t) ==
    /\ pc[t] = "stat"
    /\ \E f \in scan[t].event_files :
          LET newer == scan[t].latest = <<>> \/ files[f].mtime > scan[t].key
          IN  /\ scan' = [scan EXCEPT ![t].event_files = @ \ {f},
                                      ![t].latest = IF newer THEN f ELSE @,
                                      ![t].key = IF newer THEN files[f].mtime ELSE @]
              /\ pc' = [pc EXCEPT ![t] = IF scan[t].event_files = {f} THEN "append"
                                         ELSE "stat"]
    /\ UNCHANGED <<available, fsVars, cacheVars, localVars>>

\* Lines 65-72: the entry of the behavior directory is appended, its
\* updated_at from another stat of the latest file.
scan_append(t) ==
    /\ pc[t] = "append"
    /\ scan' = [scan EXCEPT ![t].runs =
                  Append(@, [run_id |-> scan[t].run_dir,
                             behavior |-> scan[t].behavior_dir,
                             event_path |-> scan[t].latest,
                             updated_at |-> files[scan[t].latest].mtime])]
    /\ pc' = [pc EXCEPT ![t] = "behavior_dir"]
    /\ UNCHANGED <<available, fsVars, cacheVars, localVars>>

\* A bug the grouping could have: latest_update taken from the behavior added
\* last, not the maximum.
RECURSIVE grouped_last(_)
grouped_last(runs) ==
    IF runs = <<>> THEN <<>>
    ELSE LET r == runs[Len(runs)]
             g == grouped_last(SubSeq(runs, 1, Len(runs) - 1))
             b == [name |-> r.behavior, event_path |-> r.event_path,
                   updated_at |-> r.updated_at]
         IN  IF \E i \in 1..Len(g) : g[i].id = r.run_id
             THEN [i \in 1..Len(g) |->
                     IF g[i].id = r.run_id
                     THEN [g[i] EXCEPT !.behaviors = Append(@, b),
                                       !.latest_update = r.updated_at]
                     ELSE g[i]]
             ELSE Append(g, [id |-> r.run_id, behaviors |-> <<b>>,
                             latest_update |-> r.updated_at])

RECURSIVE grouped(_)
\* Lines 130-147: the values of the dict `grouped`, in the order their keys
\* were inserted: a summary for each run_id, holding its behaviors in the
\* order discovered and the maximum of their updated_at.
grouped(runs) ==
    IF runs = <<>> THEN <<>>
    ELSE LET r == runs[Len(runs)]
             g == grouped(SubSeq(runs, 1, Len(runs) - 1))
             b == [name |-> r.behavior, event_path |-> r.event_path,
                   updated_at |-> r.updated_at]
         IN  IF \E i \in 1..Len(g) : g[i].id = r.run_id
             THEN [i \in 1..Len(g) |->
                     IF g[i].id = r.run_id
                     THEN [g[i] EXCEPT !.behaviors = Append(@, b),
                                       !.latest_update = Max(@, r.updated_at)]
                     ELSE g[i]]
             ELSE Append(g, [id |-> r.run_id, behaviors |-> <<b>>,
                             latest_update |-> r.updated_at])

\* A bug the listing could have: the summaries left in the order of the runs'
\* names.
sorted_by_latest_update_unsorted(summaries) == summaries

RECURSIVE sorted_by_latest_update(_)
\* Line 148: sorted(grouped.values(), key=latest_update); sorted() is stable.
sorted_by_latest_update(summaries) ==
    IF summaries = <<>> THEN <<>>
    ELSE LET x == summaries[Len(summaries)]
             s == sorted_by_latest_update(SubSeq(summaries, 1, Len(summaries) - 1))
             k == Cardinality({i \in 1..Len(s) : s[i].latest_update <= x.latest_update})
         IN  SubSeq(s, 1, k) \o <<x>> \o SubSeq(s, k + 1, Len(s))

\* A bug handle_runs could have: the cache emptied with every listing.
handle_runs_respond_clearing(t) ==
    /\ pc[t] = "group"
    /\ resp' = [resp EXCEPT ![t] =
                  [status |-> 200, runs |-> sorted_by_latest_update(grouped(scan[t].runs))]]
    /\ pc' = [pc EXCEPT ![t] = "done"]
    /\ cache' = <<>>
    /\ UNCHANGED <<scan, available, fsVars, accs, lock, returned, query, limit,
                   event_file, acc, tags, data>>

\* Lines 148-149: the payload {"runs": [...]}, written with status 200.
handle_runs_respond(t) ==
    /\ pc[t] = "group"
    /\ resp' = [resp EXCEPT ![t] =
                  [status |-> 200, runs |-> sorted_by_latest_update(grouped(scan[t].runs))]]
    /\ pc' = [pc EXCEPT ![t] = "done"]
    /\ UNCHANGED <<scan, available, fsVars, cacheVars, query, limit, event_file,
                   acc, tags, data>>

\* GET /api/runs.
Runs(t) ==
    \/ handle_runs_begin(t)
    \/ scan_run_dir(t)
    \/ scan_behavior_dir(t)
    \/ scan_stat(t)
    \/ scan_append(t)
    \/ handle_runs_respond(t)

Trainer(max) ==
    \/ MakeRoot
    \/ \E p \in Paths : CreateFile(p)
    \/ \E p \in Paths, tag \in Tags : AppendRecord(p, tag, max)

Server(t, queries) ==
    \/ \E q \in queries : handle_metrics_begin(t, q)
    \/ get_enter(t)
    \/ Reload_read(t)
    \/ get_return(t)
    \/ read_tags(t)
    \/ read_scalars(t)

(***************************************************************************)
(* Spec: the workers serve one request each, at the same time, while the   *)
(* trainer writes.                                                         *)
(***************************************************************************)
Next == Trainer(MaxRecords) \/ \E t \in Threads : Server(t, Queries)

Spec == Init /\ [][Next]_vars

(***************************************************************************)
(* SpecSequential: requests served one after the other (each by a new      *)
(* worker, which takes the place of the one that finished), while the      *)
(* trainer writes.                                                         *)
(***************************************************************************)
GetsReturned ==
    LET RECURSIVE Sum(_)
        Sum(S) == IF S = {} THEN 0
                  ELSE LET p == CHOOSE x \in S : TRUE IN Len(returned[p]) + Sum(S \ {p})
    IN  Sum(Paths)

\* The worker has answered and ends; the next request gets a new worker.
NextWorker(t) ==
    /\ pc[t] = "done"
    /\ GetsReturned < MaxGets
    /\ pc' = [pc EXCEPT ![t] = "idle"]
    /\ query' = [query EXCEPT ![t] = Query(None, None, NoLimit)]
    /\ limit' = [limit EXCEPT ![t] = 0]
    /\ event_file' = [event_file EXCEPT ![t] = NoFile]
    /\ acc' = [acc EXCEPT ![t] = 0]
    /\ tags' = [tags EXCEPT ![t] = <<>>]
    /\ data' = [data EXCEPT ![t] = <<>>]
    /\ resp' = [resp EXCEPT ![t] = NoResp]
    /\ scan' = [scan EXCEPT ![t] = NoScan]
    /\ UNCHANGED <<available, fsVars, cacheVars>>

NextSequential ==
    \/ Trainer(MaxAppends)
    \/ Server(1, SequentialQueries)
    \/ NextWorker(1)

SpecSequential == Init /\ [][NextSequential]_vars

(***************************************************************************)
(* SpecRequest: one request for run1/AgentA, with any of a range of limit  *)
(* texts, against a log the trainer wrote before.                          *)
(***************************************************************************)
RECURSIVE ToDigits(_)
\* The decimal digits of a natural number.
ToDigits(n) == IF n < 10 THEN <<Digits[n + 1]>> ELSE Append(ToDigits(n \div 10), Digits[(n % 10) + 1])
\* str(n) of an integer.
ToText(n) == IF n < 0 THEN <<"-">> \o ToDigits(0 - n) ELSE ToDigits(n)

\* Integers given as limit, written as str() writes them.
IntSamples == (-3..5) \cup {49, 50, 199, 200, 201, 1999, 2000, 2001, 2002, 99999, -2000}

\* Other texts int() accepts, each with its value.
IntVariants ==
    { <<<<"+", "2">>, 2>>, <<<<" ", "2", " ">>, 2>>, <<<<"0", "0", "3">>, 3>>,
      <<<<"1", "_", "0">>, 10>>, <<<<"-", "0">>, 0>>, <<<<"+", "2", "0", "0", "1">>, 2001>> }

\* Each integer text with the integer it stands for.
IntCases == {<<ToText(n), n>> : n \in IntSamples} \cup IntVariants

\* Texts int() refuses with ValueError.
JunkTexts ==
    { <<"a", "b", "c">>, <<"1", ".", "5">>, <<"-">>, <<"1", "e", "3">>, <<"2", " ", "0">>,
      <<"_", "1">>, <<"1", "_", "_", "0">>, <<"0", "x", "1", "0">>, <<"+", "-", "1">>,
      <<" ">>, <<"1", "_">>, <<"-", " ", "1">> }

RequestQueries ==
    {Query(Run1, AgentA, LimitText(c[1])) : c \in IntCases}
    \cup {Query(Run1, AgentA, LimitText(x)) : x \in JunkTexts}
    \cup {Query(Run1, AgentA, NoLimit), Query(Run1, AgentA, LimitText(<<>>))}

RECURSIVE WriteLog(_)
\* The log after the trainer wrote one record for each tag of the sequence.
WriteLog(ts) ==
    IF ts = <<>> THEN <<>>
    ELSE LET log == WriteLog(SubSeq(ts, 1, Len(ts) - 1))
         IN  Append(log, [tag |-> ts[Len(ts)], step |-> NextStep(log, ts[Len(ts)])])

Logs == {WriteLog(ts) : ts \in UNION {[1..n -> Tags] : n \in 0..MaxLog}}

InitRequest ==
    /\ available = TRUE
    /\ root_exists = TRUE
    /\ \E log \in Logs :
         /\ now = Len(log) + 1
         /\ files = ([run |-> Run1, behavior |-> AgentA, name |-> EventName1]
                        :> [mtime |-> Len(log) + 1, log |-> log])
    /\ accs = <<>>
    /\ cache = <<>>
    /\ lock = 0
    /\ pc = [t \in Threads |-> "idle"]
    /\ query = [t \in Threads |-> Query(None, None, NoLimit)]
    /\ limit = [t \in Threads |-> 0]
    /\ event_file = [t \in Threads |-> NoFile]
    /\ acc = [t \in Threads |-> 0]
    /\ tags = [t \in Threads |-> <<>>]
    /\ data = [t \in Threads |-> <<>>]
    /\ resp = [t \in Threads |-> NoResp]
    /\ returned = [p \in Paths |-> <<>>]
    /\ scan = [t \in Threads |-> NoScan]

NextRequest == Server(1, RequestQueries)

SpecRequest == InitRequest /\ [][NextRequest]_vars

(***************************************************************************)
(* SpecDiscovery: one GET /api/runs over any small directory tree; nothing *)
(* writes while it is served.                                              *)
(***************************************************************************)
RunNames == {"run1", "run2"}
BehaviorNames == {"AgentA", "AgentB"}
\* A name the glob does not match: it lacks the dot and what follows it.
OtherName == <<"events", "out", "tfevents">>

\* What a tree may hold: a plain file in the results directory, a plain file
\* in each run directory, and files in the behavior directories.
TreeEntries ==
    {[run |-> "README", behavior |-> None, name |-> <<>>]}
    \cup {[run |-> r, behavior |-> "config", name |-> <<>>] : r \in RunNames}
    \cup {[run |-> r, behavior |-> b, name |-> n] :
            r \in RunNames, b \in BehaviorNames, n \in {EventName1, EventName2, OtherName}}

\* A file as the trainer left it after writing to it m times, the first write
\* creating it and each later one appending a record.
Written(m) == [mtime |-> m, log |-> WriteLog([i \in 1..(m - 1) |-> "reward"])]

Trees ==
    UNION {[S -> {Written(m) : m \in 1..MaxMtime}] :
             S \in {T \in SUBSET TreeEntries : Cardinality(T) <= MaxFiles}}

InitDiscovery ==
    /\ available = TRUE
    /\ root_exists \in BOOLEAN
    /\ files \in Trees
    /\ ~root_exists => files = <<>>
    /\ now = MaxMtime
    /\ accs = <<>>
    /\ cache = <<>>
    /\ lock = 0
    /\ pc = [t \in Threads |-> "idle"]
    /\ query = [t \in Threads |-> Query(None, None, NoLimit)]
    /\ limit = [t \in Threads |-> 0]
    /\ event_file = [t \in Threads |-> NoFile]
    /\ acc = [t \in Threads |-> 0]
    /\ tags = [t \in Threads |-> <<>>]
    /\ data = [t \in Threads |-> <<>>]
    /\ resp = [t \in Threads |-> NoResp]
    /\ returned = [p \in Paths \cup TreeEntries |-> <<>>]
    /\ scan = [t \in Threads |-> NoScan]

NextDiscovery == Runs(1)

SpecDiscovery == InitDiscovery /\ [][NextDiscovery]_vars

(***************************************************************************)
(* SpecLookup: one GET /api/metrics over any small directory tree, for a   *)
(* pair the tree may hold or for one that differs from it in case.         *)
(***************************************************************************)
LookupQueries ==
    { Query(Run1, AgentA, NoLimit),
      Query(Run1, "agenta", NoLimit),
      Query("Run1", AgentA, NoLimit),
      Query("run2", "AgentB", NoLimit) }

NextLookup == Server(1, LookupQueries)

SpecLookup == InitDiscovery /\ [][NextLookup]_vars

(***************************************************************************)
(* SpecServer: requests to both endpoints served one after the other,      *)
(* while the trainer writes.                                               *)
(***************************************************************************)
NextServer ==
    \/ Trainer(MaxRecords)
    \/ Server(1, SequentialQueries)
    \/ Runs(1)
    \/ NextWorker(1)

SpecServer == Init /\ [][NextServer]_vars

(***************************************************************************)
(* SpecRaise: the workers serve one request each for the same event file,  *)
(* at the same time, with a parser whose constructor and Reload may raise. *)
(* A worker thread that can take a step eventually takes one.              *)
(***************************************************************************)
RaiseQueries == {Query(Run1, AgentA, NoLimit)}

InitRaise ==
    /\ available = TRUE
    /\ root_exists = TRUE
    /\ files = ([run |-> Run1, behavior |-> AgentA, name |-> EventName1] :> Written(2))
    /\ now = 2
    /\ accs = <<>>
    /\ cache = <<>>
    /\ lock = 0
    /\ pc = [t \in Threads |-> "idle"]
    /\ query = [t \in Threads |-> Query(None, None, NoLimit)]
    /\ limit = [t \in Threads |-> 0]
    /\ event_file = [t \in Threads |-> NoFile]
    /\ acc = [t \in Threads |-> 0]
    /\ tags = [t \in Threads |-> <<>>]
    /\ data = [t \in Threads |-> <<>>]
    /\ resp = [t \in Threads |-> NoResp]
    /\ returned = [p \in Paths |-> <<>>]
    /\ scan = [t \in Threads |-> NoScan]

\* The steps of one worker thread.
Worker(t) ==
    \/ Server(t, RaiseQueries)
    \/ construct_raise(t)
    \/ Reload_raise(t)

NextRaise == \E t \in Threads : Worker(t)

SpecRaise == InitRaise /\ [][NextRaise]_vars /\ \A t \in Threads : WF_vars(Worker(t))

(***************************************************************************)
(* Properties.                                                             *)
(***************************************************************************)
\* The threads that are inside get's locked region: between the lookup and
\* the return.
InGet(t) == pc[t] \in {"reload_first", "reload"}
\* The threads whose get has returned an accumulator.
HasReturned(t) == pc[t] \in {"tags", "scalars", "done"} /\ acc[t] # 0
\* The threads reading the accumulator get returned (Tags, Scalars).
Reading(t) == pc[t] \in {"tags", "scalars"}
\* The accumulators constructed for a path.
Constructed(p) == {i \in 1..Len(accs) : accs[i].path = p}

\* C1: however the get calls of the workers on one path interleave, the
\* constructor runs once for the path, every call returns that one
\* accumulator, and the cache maps the path to it.
C1_OneHandlePerPath ==
    \A p \in Paths :
        /\ Cardinality(Constructed(p)) <= 1
        /\ p \in DOMAIN cache => Constructed(p) = {cache[p]}
        /\ \A i \in 1..Len(returned[p]) :
               p \in DOMAIN cache /\ returned[p][i].acc = cache[p]
        /\ \A t \in Threads :
               HasReturned(t) /\ event_file[t].event_path = p
                   => p \in DOMAIN cache /\ acc[t] = cache[p]

\* Every worker called get on the same path, and every call has returned.
C1_Witness ==
    \E p \in Paths :
        /\ \A t \in Threads : HasReturned(t) /\ event_file[t].event_path = p
        /\ Len(returned[p]) = NumThreads

\* C2: no worker reads tags or samples from an accumulator while another
\* worker's get is executing Reload on that accumulator.
C2_NoReadDuringReload ==
    \A t, u \in Threads :
        t # u /\ Reading(t) /\ pc[u] = "reload" => acc[t] # acc[u]

\* C3: at most one worker is between get's lookup and its return, and it
\* holds the lock; so no two Reload calls are in progress at once.
C3_MutualExclusion ==
    /\ \A t, u \in Threads : InGet(t) /\ InGet(u) => t = u
    /\ \A t \in Threads : InGet(t) => lock = t

\* One worker holds the lock, its Reload with a record still to read, while
\* another waits at the lock with a get for the same path.
C3_Witness ==
    \E t, u \in Threads :
        /\ InGet(t) /\ lock = t /\ pc[u] = "acquire"
        /\ event_file[t].event_path = event_file[u].event_path
        /\ accs[acc[t]].offset < Len(files[accs[acc[t]].path].log)

\* The accumulators whose first Reload has not ended.
Loading == {acc[t] : t \in {u \in Threads : pc[u] = "reload_first"}}

\* C4: an accumulator whose first Reload has not ended is not in the cache,
\* and no other worker holds it.
C4_NoHalfBuilt ==
    /\ \A p \in DOMAIN cache : cache[p] \notin Loading
    /\ \A t \in Threads : pc[t] \in {"reload", "tags", "scalars"} => acc[t] \notin Loading

\* A new accumulator has read part of its file, its first Reload going on,
\* while another worker waits with a get for that path.
C4_Witness ==
    \E t, u \in Threads :
        /\ pc[t] = "reload_first" /\ accs[acc[t]].offset > 0
        /\ pc[u] = "acquire"
        /\ event_file[t].event_path = event_file[u].event_path

\* The steps of a series.
Steps(series) == {series[i] : i \in 1..Len(series)}

\* C5: of two get calls on a path, the later one returns, for every series,
\* every step the earlier one returned.
C5_ReloadMonotone ==
    \A p \in Paths :
        \A i, j \in 1..Len(returned[p]) :
            i < j => \A tag \in Tags :
                        Steps(returned[p][i].content.items[tag])
                            \subseteq Steps(returned[p][j].content.items[tag])

\* Two get calls on a path, the file having gained samples of a series the
\* first had returned already.
C5_Witness ==
    \E p \in Paths, tag \in Tags :
        /\ Len(returned[p]) >= 2
        /\ returned[p][1].content.items[tag] # <<>>
        /\ Len(returned[p][2].content.items[tag]) > Len(returned[p][1].content.items[tag])

\* C6: two get calls on a path in a row, the file the same at both, return
\* equal content.
C6_ReloadIdempotent ==
    \A p \in Paths :
        \A i \in 1..(Len(returned[p]) - 1) :
            returned[p][i].log = returned[p][i + 1].log
                => returned[p][i].content = returned[p][i + 1].content

\* The first get on a path constructed the accumulator of a file that holds
\* records, and the next found the file the same.
C6_Witness ==
    \E p \in Paths :
        /\ Len(returned[p]) >= 2
        /\ returned[p][1].log # <<>>
        /\ returned[p][1].log = returned[p][2].log

\* C7: a path the cache maps to an accumulator stays mapped to that very
\* accumulator.
C7_NeverReplaced ==
    [][\A p \in DOMAIN cache : p \in DOMAIN cache' /\ cache'[p] = cache[p]]_vars

\* A second get on a cached path has returned: the path was mapped before
\* that call and is mapped to the same accumulator after it.
C7_Witness ==
    \E p \in DOMAIN cache :
        Len(returned[p]) >= 2 /\ returned[p][1].acc = cache[p]

\* The number of records of a tag in a log: its series holds the steps 1..n.
SeriesLength(log, tag) == Cardinality({i \in 1..Len(log) : log[i].tag = tag})

\* C8: a successful response lists the tags of the file and gives, for each,
\* min(limit, n) samples: the last ones of the series 1..n, in order.
C8_TailWindow ==
    \A t \in Threads :
        pc[t] = "done" /\ resp[t].status = 200 =>
            LET log == files[resp[t].event_path].log
            IN  /\ Len(resp[t].data) = Len(resp[t].tags)
                /\ {resp[t].tags[i] : i \in 1..Len(resp[t].tags)}
                       = {tag \in Tags : SeriesLength(log, tag) > 0}
                /\ \A i \in 1..Len(resp[t].tags) :
                       LET n == SeriesLength(log, resp[t].tags[i])
                           d == resp[t].data[i]
                       IN  /\ Len(d) = Min(limit[t], n)
                           /\ \A j \in 1..Len(d) : d[j] = n - Len(d) + j

\* A series of three samples or more, answered with a limit of two: the
\* window is a proper tail of more than one sample.
C8_Witness ==
    \E t \in Threads :
        /\ pc[t] = "done" /\ resp[t].status = 200 /\ limit[t] = 2
        /\ \E i \in 1..Len(resp[t].tags) :
              /\ SeriesLength(files[resp[t].event_path].log, resp[t].tags[i]) >= 3
              /\ Len(resp[t].data[i]) = 2

Clamp(n, lo, hi) == IF n < lo THEN lo ELSE IF n > hi THEN hi ELSE n

C10_BadRequest ==
    \A t \in Threads :
        pc[t] = "done" /\ (query[t].run \in {None, ""} \/ query[t].behavior \in {None, ""})
            => resp[t] = ErrorResponse(400, ErrRequired)

\* A request with a behavior, a malformed limit and no run is answered 400
\* though the behavior's event file exists, without tensorboard installed.
C10_Witness ==
    \E t \in Threads :
        /\ pc[t] = "done" /\ resp[t].status = 400
        /\ query[t] = Query(None, AgentA, Malformed)
        /\ ~available
        /\ find_event_file(root_exists, files, Run1, AgentA) # {}

\* C12: without tensorboard no get call gets past its check: the cache stays
\* empty and no accumulator is made, and every metrics request that resolved
\* to a file, the first and each later one, is answered 500 with the message.
C12_DependencyMissing ==
    ~available =>
        /\ cache = <<>> /\ accs = <<>>
        /\ \A p \in Paths : returned[p] = <<>>
        /\ \A t \in Threads :
              /\ pc[t] \in {"idle", "done"}
              /\ pc[t] = "done" /\ event_file[t] # NoFile
                    => resp[t] = ErrorResponse(500, ErrNoTensorboard)

\* Without tensorboard a request for an event file that holds records is
\* answered 500.
C12_Witness ==
    \E t \in Threads :
        /\ ~available /\ pc[t] = "done" /\ resp[t].status = 500
        /\ files[event_file[t].event_path].log # <<>>
        /\ Cardinality(DOMAIN files) = Cardinality(Paths)

\* The threads whose discover_runs, called by handle_runs, has just returned:
\* scan[t].runs is what it returned.
Discovered(t) == pc[t] = "group"

\* The files of a behavior directory named events.out.tfevents.<something>.
Matching(run, behavior) ==
    {p \in DOMAIN files :
        /\ p.run = run /\ p.behavior = behavior /\ Len(p.name) >= 4
        /\ p.name[1] = "events" /\ p.name[2] = "out" /\ p.name[3] = "tfevents"}

\* The (run, behavior) pairs there are, in the tree or in a result.
Pairs(runs) ==
    {<<p.run, p.behavior>> : p \in DOMAIN files}
    \cup {<<runs[i].run_id, runs[i].behavior>> : i \in 1..Len(runs)}

\* The places of a (run, behavior) pair in a result.
EntriesOf(runs, pair) ==
    {i \in 1..Len(runs) : runs[i].run_id = pair[1] /\ runs[i].behavior = pair[2]}

\* C13: discover_runs returns no entry for a behavior directory without a
\* matching file and one entry for each with one or more: a matching file
\* of the greatest mtime among them; so no (run_id, behavior) comes twice.
C13_OnePerBehavior ==
    \A t \in Threads :
        Discovered(t) =>
            LET runs == scan[t].runs IN
            \A pair \in Pairs(runs) :
                LET M == Matching(pair[1], pair[2]) IN
                /\ M = {} => EntriesOf(runs, pair) = {}
                /\ M # {} =>
                     /\ Cardinality(EntriesOf(runs, pair)) = 1
                     /\ \A i \in EntriesOf(runs, pair) :
                           /\ runs[i].event_path \in M
                           /\ \A q \in M : files[q].mtime <= files[runs[i].event_path].mtime

\* A tree with a behavior directory of two event files, one newer than the
\* other, and a behavior directory with a file that is no event file: the
\* result holds one entry.
C13_Witness ==
    \E t \in Threads :
        /\ Discovered(t) /\ Len(scan[t].runs) = 1
        /\ \E p, q \in Matching(scan[t].runs[1].run_id, scan[t].runs[1].behavior) :
              files[p].mtime < files[q].mtime
        /\ \E p \in DOMAIN files :
              /\ p.name = OtherName
              /\ <<p.run, p.behavior>> # <<scan[t].runs[1].run_id, scan[t].runs[1].behavior>>

\* No behavior directory with an event file: the results directory is
\* missing, or empty, or holds nothing discover_runs reports.
NoRuns == ~root_exists \/ \A p \in DOMAIN files : Matching(p.run, p.behavior) = {}

\* C14: without the results directory, or with no run in it, discover_runs
\* returns the empty list and GET /api/runs is answered 200 {"runs": []}.
C14_EmptyListing ==
    \A t \in Threads :
        NoRuns =>
            /\ Discovered(t) => scan[t].runs = <<>>
            /\ pc[t] = "done" => resp[t] = [status |-> 200, runs |-> <<>>]

\* GET /api/runs has been answered and the results directory does not exist.
C14_Witness ==
    \E t \in Threads :
        ~root_exists /\ pc[t] = "done" /\ resp[t].status = 200 /\ resp[t].runs = <<>>

\* The elements of a sequence.
Elements(seq) == {seq[i] : i \in 1..Len(seq)}

\* C15: the listing holds one summary for each run_id discover_runs returned;
\* a summary lists the behaviors discovered for its run, all of them and no
\* other, each with its path and mtime, and its latest_update is the greatest
\* of their mtimes.
C15_RunSummaries ==
    \A t \in Threads :
        pc[t] = "done" =>
            LET runs == scan[t].runs
                listing == resp[t].runs
            IN  /\ {s.id : s \in Elements(listing)} = {r.run_id : r \in Elements(runs)}
                /\ Cardinality({s.id : s \in Elements(listing)}) = Len(listing)
                /\ \A s \in Elements(listing) :
                      LET of_run == {r \in Elements(runs) : r.run_id = s.id}
                      IN  /\ Elements(s.behaviors)
                                = {[name |-> r.behavior, event_path |-> r.event_path,
                                    updated_at |-> r.updated_at] : r \in of_run}
                          /\ Len(s.behaviors) = Cardinality(of_run)
                          /\ \A r \in of_run : r.updated_at <= s.latest_update
                          /\ \E r \in of_run : r.updated_at = s.latest_update

\* A listing of two runs, one of them with two behaviors of which the one
\* discovered first is the newer.
C15_Witness ==
    \E t \in Threads :
        /\ pc[t] = "done" /\ Len(resp[t].runs) = 2
        /\ \E s \in Elements(resp[t].runs) :
              /\ Len(s.behaviors) = 2
              /\ s.behaviors[1].updated_at > s.behaviors[2].updated_at

\* C16: the summaries of the listing come in ascending order of
\* latest_update: each is at most as new as the one after it.
C16_AscendingByLatestUpdate ==
    \A t \in Threads :
        pc[t] = "done" =>
            \A i \in 1..(Len(resp[t].runs) - 1) :
                resp[t].runs[i].latest_update <= resp[t].runs[i + 1].latest_update

\* A listing of two runs in which the run of the greater name comes first,
\* being the older.
C16_Witness ==
    \E t \in Threads :
        /\ pc[t] = "done" /\ Len(resp[t].runs) = 2
        /\ Rank(resp[t].runs[1].id) > Rank(resp[t].runs[2].id)
        /\ resp[t].runs[1].latest_update < resp[t].runs[2].latest_update

\* C11: a metrics request with run and behavior is answered 404, the message
\* naming both, exactly when no behavior directory of exactly these names
\* holds an event file; otherwise the latest event file of that directory is
\* the one the request resolves to and the response reports.
C11_NotFound ==
    \A t \in Threads :
        pc[t] # "idle" /\ query[t].run \notin {None, ""} /\ query[t].behavior \notin {None, ""} =>
            LET M == Matching(query[t].run, query[t].behavior)
                latest == {p \in M : \A q \in M : files[q].mtime <= files[p].mtime}
            IN  /\ M = {} <=> pc[t] = "done" /\ resp[t].status = 404
                /\ M = {} => resp[t] = ErrorResponse(404, ErrNotFound(query[t].run,
                                                                      query[t].behavior))
                /\ M # {} =>
                     /\ event_file[t].run_id = query[t].run
                     /\ event_file[t].behavior = query[t].behavior
                     /\ event_file[t].event_path \in latest
                     /\ event_file[t].updated_at = files[event_file[t].event_path].mtime
                     /\ pc[t] = "done" =>
                           /\ resp[t].status = 200
                           /\ resp[t].event_path = event_file[t].event_path
                           /\ resp[t].updated_at = event_file[t].updated_at

\* A request for run1/agenta is answered 404 although run1/AgentA holds an
\* event file, and so does another behavior of run1.
C11_Witness ==
    \E t \in Threads :
        /\ pc[t] = "done" /\ resp[t].status = 404
        /\ query[t] = Query(Run1, "agenta", NoLimit)
        /\ Matching(Run1, AgentA) # {}
        /\ Matching(Run1, "AgentB") # {}

\* The threads serving GET /api/runs.
InRuns(t) == pc[t] \in {"run_dir", "behavior_dir", "stat", "append", "group"}
\* The threads inside get, called by a metrics request that passed validation
\* and resolved to a file.
GetCalled(t) ==
    /\ pc[t] \in {"acquire", "reload_first", "reload"}
    /\ ~ParamsMissing(RunId(t), Behavior(t))
    /\ event_file[t] # NoFile

\* C17: the cache's paths and the accumulators' content change only in a step
\* of get, called by a metrics request that passed validation and resolved to
\* a file; no step of GET /api/runs changes them, nor does a metrics request
\* answered 400 or 404.
C17_CacheFrame ==
    [][/\ (cache' # cache \/ accs' # accs) =>
             \E t \in Threads : GetCalled(t) /\ (pc'[t] # pc[t] \/ accs' # accs)
       /\ \A t \in Threads :
             ( (InRuns(t) /\ pc'[t] # pc[t])
               \/ (pc[t] = "idle" /\ InRuns(t)')
               \/ (pc[t] = "idle" /\ pc'[t] = "done" /\ resp'[t].status \in {400, 404}) )
                 => (cache' = cache /\ accs' = accs)]_vars

\* GET /api/runs has been answered with a run in its listing while the cache
\* holds an accumulator that has read records.
C17_Witness ==
    \E t \in Threads :
        /\ pc[t] = "done" /\ "runs" \in DOMAIN resp[t]
        /\ resp[t].runs # <<>>
        /\ \E p \in DOMAIN cache : accs[cache[p]].offset > 0

\* C19: the updated_at of an entry discover_runs makes is the mtime its file
\* was selected by, the greatest that max() saw among the event files of the
\* behavior directory, also while the trainer writes.
C19_ReportedIsSelectedBy ==
    \A t \in Threads :
        pc[t] = "behavior_dir" /\ scan[t].latest # <<>> =>
            /\ scan[t].runs # <<>>
            /\ scan[t].runs[Len(scan[t].runs)].event_path = scan[t].latest
            /\ scan[t].runs[Len(scan[t].runs)].updated_at = scan[t].key

\* C18: the lock is held only by a worker inside get; every worker that
\* calls get gets the lock and leaves get, returning or raising; and when the
\* constructor or the first Reload raises, the path is left without an entry
\* (an entry is there only once a first Reload has returned).
C18_LockReleased ==
    /\ [](lock # 0 => InGet(lock))
    /\ \A t \in Threads : (pc[t] = "acquire") ~> (pc[t] \in {"tags", "scalars", "done"})
    /\ [][\A t \in Threads :
            pc[t] \in {"acquire", "reload_first"} /\ pc'[t] = "done"
                => /\ lock' = 0
                   /\ event_file[t].event_path \notin DOMAIN cache'
                   /\ cache' = cache]_vars
    /\ [](\A p \in DOMAIN cache : returned[p] # <<>>)

\* A worker's first Reload raised and its accumulator was dropped; another
\* worker's get, later, constructed a second one for the path, which is the
\* one stored.
C18_Witness ==
    \E t, u \in Threads :
        /\ pc[t] = "done" /\ resp[t].status \in {0, 500} /\ acc[t] # 0
        /\ HasReturned(u) /\ acc[u] # acc[t]
        /\ event_file[u].event_path = event_file[t].event_path
        /\ Cardinality(Constructed(event_file[t].event_path)) = 2
        /\ event_file[t].event_path \in DOMAIN cache
        /\ cache[event_file[t].event_path] = acc[u]

=============================================================================
